---- MODULE Spec2Model ----
(***************************************************************************)
(* The LoadFlexibility measure (measures/LoadFlexibility/measure.py): one  *)
(* run of LoadFlexibility.run() as a sequence of steps, over the HPXML     *)
(* document and the CSV files on disk, which outlive a run.                *)
(*                                                                         *)
(* The helpers imported from resources/ (setpoint.py, input_helper.py,     *)
(* xml_helper.py) are not part of measure.py; they are modelled from the   *)
(* specification (the offset engine, the argument dataclasses, the         *)
(* find-or-create of the extension element).                               *)
(*                                                                         *)
(* Representation: an optional value is a sequence of length 0 (None) or   *)
(* 1; a text file is the sequence of its lines (the text split at "\n").   *)
(***************************************************************************)
EXTENDS Integers, Sequences, FiniteSets, TLC

\* bounds of the model
MaxBuildings == 2
MaxRefs == 2
MaxT == 5
MaxWindows == 2

VARIABLES
    user_arguments,   \* the OSArgumentMap the host passes to run()
    generator,        \* what create_setpoint_schedules.rb answers when run
    hpxml_file,       \* the HPXML document on disk (its Building elements)
    csv_files,        \* the CSV files on disk: path -> lines
    pc,               \* position of the current run in run()
    ret,              \* "running", or how run() ended: "true", "false", "raised"
    exception,        \* the exception that ended the run, "" if none
    warnings,         \* runner.registerWarning calls of the run
    errors,           \* runner.registerError calls of the run
    inputs,           \* Optional: the Inputs object of process_arguments
    result,           \* Optional: the CompletedProcess of subprocess.run
    setpoints,        \* Optional: the list of HVACSetpoints
    new_setpoints,    \* Optional: the list of modified setpoint dicts
    hpxml,            \* the in-memory tree, once loaded
    indx,             \* number of buildings the loop has completed
    csv_written,      \* paths opened for writing by the current run
    persists,         \* number of hpxml.tree.write calls of the current run
    file_at_start,    \* hpxml_file as it was when the current run started
    runs_ok           \* number of runs that returned True so far (capped at 2)

vars == <<user_arguments, generator, hpxml_file, csv_files, pc, ret, exception,
          warnings, errors, inputs, result, setpoints, new_setpoints, hpxml,
          indx, csv_written, persists, file_at_start, runs_ok>>

env == <<user_arguments, generator>>

----------------------------------------------------------------------------
\* Generic helpers

NoneVal == <<>>
Some(v) == <<v>>
Min(a, b) == IF a <= b THEN a ELSE b
Range(s) == {s[i] : i \in 1..Len(s)}
SeqsUpTo(S, n) == UNION {[1..m -> S] : m \in 0..n}
Count(x, s) == Cardinality({i \in 1..Len(s) : s[i] = x})
IsPrefix(s, t) == Len(s) <= Len(t) /\ \A i \in 1..Len(s) : s[i] = t[i]

----------------------------------------------------------------------------
\* Arguments (input_helper.py: Inputs, RelativeOffsetData, AbsoluteOffsetData)

RelativeOffsetFields == {"heating_delta", "cooling_delta"}
AbsoluteOffsetFields == {"heating_target", "cooling_target"}
ArgNames == {"upgrade_name", "offset_type", "offset_timing"}
              \cup RelativeOffsetFields \cup AbsoluteOffsetFields

\* runner.validateUserArguments: offset_type is a choice argument
validateUserArguments(args) ==
    args.offset_type \in {Some("relative"), Some("absolute")}

\* line 122: the names of the arguments that carry a value
passed_args(args) == {n \in ArgNames : args[n] # NoneVal}

\* get_input_from_dict: the typed Inputs object
get_input_from_dict(arg_dict) ==
    [offset_type |-> arg_dict.offset_type[1],
     relative_offset |-> [heating |-> arg_dict.heating_delta,
                          cooling |-> arg_dict.cooling_delta],
     absolute_offset |-> [heating |-> arg_dict.heating_target,
                          cooling |-> arg_dict.cooling_target],
     offset_timing |-> arg_dict.offset_timing]

\* A variant of process_arguments that treats stray relative fields under
\* absolute mode as an error too.
process_arguments_strict(arg_dict, passed_arg) ==
    LET rel == passed_arg \cap RelativeOffsetFields
        abs == passed_arg \cap AbsoluteOffsetFields
    IN [warnings |-> <<>>,
        errors |->
            (IF arg_dict.offset_type = Some("absolute") /\ rel # {}
             THEN <<[kind |-> "ignored_relative", detail |-> rel]>> ELSE <<>>)
            \o
            (IF arg_dict.offset_type = Some("relative") /\ abs # {}
             THEN <<[kind |-> "ignored_absolute", detail |-> abs]>> ELSE <<>>),
        inputs |-> get_input_from_dict(arg_dict)]

\* LoadFlexibility.process_arguments: what it registers and what it returns
process_arguments(arg_dict, passed_arg) ==
    LET rel == passed_arg \cap RelativeOffsetFields
        abs == passed_arg \cap AbsoluteOffsetFields
    IN [warnings |->
            IF arg_dict.offset_type = Some("absolute") /\ rel # {}
            THEN <<[kind |-> "ignored_relative", detail |-> rel]>> ELSE <<>>,
        errors |->
            IF arg_dict.offset_type = Some("relative") /\ abs # {}
            THEN <<[kind |-> "ignored_absolute", detail |-> abs]>> ELSE <<>>,
        inputs |-> get_input_from_dict(arg_dict)]

----------------------------------------------------------------------------
\* Offset engine (setpoint.py: HVACSetpoints._get_modified_setpoints)

\* the step-to-calendar mapping: steps in a day, days in a week
StepsPerDay == 4
DaysPerWeek == 7

TimeOfDay(t) == t % StepsPerDay
DayOfWeek(t) == (t \div StepsPerDay) % DaysPerWeek

\* step t (0-based) falls inside window w: its time of day lies in
\* [start, start + duration), past midnight included, on a day w applies to
WindowActive(w, t) ==
    /\ (TimeOfDay(t) - w.start + StepsPerDay) % StepsPerDay < w.duration
    /\ DayOfWeek(t) \in w.days

\* the parameter of the selected mode for one axis
ActiveParameter(inp, axis) ==
    IF inp.offset_type = "relative"
    THEN inp.relative_offset[axis]
    ELSE inp.absolute_offset[axis]

\* what one active window makes of the baseline value v
WindowValue(v, inp, axis) ==
    IF inp.offset_type = "relative"
    THEN v + ActiveParameter(inp, axis)[1]
    ELSE ActiveParameter(inp, axis)[1]

\* the setpoint of one axis at step t after the offset: the windows are
\* taken in configuration order and the last active one decides
OffsetValue(v, t, inp, axis) ==
    LET timing == inp.offset_timing
        RECURSIVE After(_)
        After(n) ==
            IF n = 0 THEN v
            ELSE IF ActiveParameter(inp, axis) # NoneVal /\ WindowActive(timing[n], t)
                 THEN WindowValue(v, inp, axis)
                 ELSE After(n - 1)
    IN After(Len(timing))

Malformed(schedule) ==
    Len(schedule.heating_setpoints) # Len(schedule.cooling_setpoints)

\* the exception _get_modified_setpoints ends with, "" if it returns
EngineException(schedule) ==
    IF Malformed(schedule) THEN "MalformedScheduleError" ELSE ""

Apply(schedule, inp) ==
    [heating_setpoints |->
        [i \in 1..Len(schedule.heating_setpoints) |->
            OffsetValue(schedule.heating_setpoints[i], i - 1, inp, "heating")],
     cooling_setpoints |->
        [i \in 1..Len(schedule.cooling_setpoints) |->
            OffsetValue(schedule.cooling_setpoints[i], i - 1, inp, "cooling")]]

\* A variant of the loop of lines 143-145 that leaves the baseline as it is.
ModifiedSetpointsUnchanged(sps, inp) == sps

\* lines 143-145: one modified dict per HVACSetpoints, in order
ModifiedSetpoints(sps, inp) == [k \in 1..Len(sps) |-> Apply(sps[k], inp)]

----------------------------------------------------------------------------
\* CSV serialization

Header == "heating_setpoint,cooling_setpoint"

Zip(a, b) == [i \in 1..Min(Len(a), Len(b)) |-> <<a[i], b[i]>>]

Join(strs, sep) ==
    LET RECURSIVE J(_)
        J(i) == IF i > Len(strs) THEN ""
                ELSE IF i = Len(strs) THEN strs[i]
                ELSE strs[i] \o sep \o J(i + 1)
    IN J(1)

\* A variant of get_setpoint_csv that loses the first time step.
get_setpoint_csv_skip(setpoint_dict) ==
    LET pairs == Zip(setpoint_dict.heating_setpoints,
                     setpoint_dict.cooling_setpoints)
        rows == [i \in 1..(Len(pairs) - 1) |->
                    Join(<<ToString(pairs[i + 1][1]), ToString(pairs[i + 1][2])>>, ",")]
    IN <<Header>> \o (IF rows = <<>> THEN <<"">> ELSE rows)

\* LoadFlexibility.get_setpoint_csv: the lines of f"{header}\n{vals}"
get_setpoint_csv(setpoint_dict) ==
    LET pairs == Zip(setpoint_dict.heating_setpoints,
                     setpoint_dict.cooling_setpoints)
        rows == [i \in 1..Len(pairs) |->
                    Join(<<ToString(pairs[i][1]), ToString(pairs[i][2])>>, ",")]
    IN <<Header>> \o (IF rows = <<>> THEN <<"">> ELSE rows)

----------------------------------------------------------------------------
\* The HPXML document

NoElement == "<no BuildingID element>"
NoIdAttribute == "<no id attribute>"
HpxmlDir == "/run"
OtherReference == "/run/occupancy_schedule.csv"

\* line 150: building.find("ns:BuildingID").get('id'), as the f-string prints it
BuildingIdText(building) ==
    IF building.BuildingID = NoIdAttribute THEN "None" ELSE building.BuildingID

\* lines 151-152
output_csv_path(doc_building_id) ==
    HpxmlDir \o "/hvac_setpoint_schedule_" \o doc_building_id \o ".csv"

\* A variant of the merge that puts the new reference first.
MergeReferencePrepend(refs, path) ==
    IF \E i \in 1..Len(refs) : refs[i] = path THEN refs ELSE <<path>> \o refs

\* A variant of the merge that appends without scanning.
MergeReferenceAlways(refs, path) == Append(refs, path)

\* lines 158-164: the for/else over the existing SchedulesFilePath elements
MergeReference(refs, path) ==
    IF \E i \in 1..Len(refs) : refs[i] = path THEN refs ELSE Append(refs, path)

\* lines 156-164 on one building: find or create the extension, then merge
MergeBuilding(building, path) ==
    [building EXCEPT !.extension = TRUE,
                     !.SchedulesFilePath = MergeReference(@, path)]

WriteFile(files, path, lines) ==
    [p \in DOMAIN files \cup {path} |-> IF p = path THEN lines ELSE files[p]]

----------------------------------------------------------------------------
\* The inputs of a run

AllDays == 0..(DaysPerWeek - 1)
Windows ==
    [start : 0..(StepsPerDay - 1), duration : {1, 2}, days : {AllDays, {1}}]
Timings == SeqsUpTo(Windows, MaxWindows)
SampleTiming == <<[start |-> 0, duration |-> 1, days |-> AllDays]>>

AllArguments ==
    [upgrade_name : {Some("flex")},
     offset_type : {Some("relative"), Some("absolute")},
     offset_timing : {SampleTiming},
     heating_delta : {NoneVal, Some(2)},
     cooling_delta : {NoneVal, Some(-1)},
     heating_target : {NoneVal, Some(65)},
     cooling_target : {NoneVal, Some(78)}]

StrayFields(args) ==
    passed_args(args) \cap (IF args.offset_type = Some("relative")
                            THEN AbsoluteOffsetFields ELSE RelativeOffsetFields)

\* the fields of the selected mode only
ModeArguments == {x \in AllArguments : StrayFields(x) = {}}

TimingSamples ==
    {<<>>, SampleTiming,
     <<[start |-> 1, duration |-> 2, days |-> AllDays]>>,
     <<[start |-> StepsPerDay - 1, duration |-> 2, days |-> {1}],
       [start |-> 0, duration |-> 1, days |-> AllDays]>>}

\* every schedule, under a few timings
ScheduleArguments ==
    {[a EXCEPT !.offset_timing = t] : a \in ModeArguments, t \in TimingSamples}

\* every timing, with one parameter of the selected mode
TimingArguments ==
    {[a EXCEPT !.offset_timing = t] :
        a \in {x \in ModeArguments :
                    /\ x.cooling_delta = NoneVal /\ x.cooling_target = NoneVal
                    /\ x.heating_delta # NoneVal \/ x.heating_target # NoneVal},
        t \in Timings}

RelativeSample ==
    [upgrade_name |-> Some("flex"), offset_type |-> Some("relative"),
     offset_timing |-> SampleTiming,
     heating_delta |-> Some(2), cooling_delta |-> NoneVal,
     heating_target |-> NoneVal, cooling_target |-> NoneVal]

ArgumentSamples ==
    {RelativeSample,
     [RelativeSample EXCEPT !.heating_target = Some(65)],
     [RelativeSample EXCEPT !.offset_type = Some("absolute"),
                            !.cooling_target = Some(78)]}

UnknownModeSample == [RelativeSample EXCEPT !.offset_type = Some("other")]

\* baseline values by step: flat, or alternating
Baseline(base, n, alternating) ==
    [t \in 1..n |-> IF alternating THEN base + (t % 2) ELSE base]

Schedules ==
    {[heating_setpoints |-> Baseline(60, h, alt),
      cooling_setpoints |-> Baseline(75, c, FALSE)] :
        h \in 0..MaxT, c \in 0..MaxT, alt \in BOOLEAN}

FullSchedules ==
    {[heating_setpoints |-> Baseline(60, n, alt),
      cooling_setpoints |-> Baseline(75, n, FALSE)] :
        n \in {StepsPerDay, MaxT}, alt \in BOOLEAN}

SampleSchedule(k) ==
    [heating_setpoints |-> [t \in 1..MaxT |-> 60 + ((k + t) % 2)],
     cooling_setpoints |-> [t \in 1..MaxT |-> 75 + k]]

MalformedSample ==
    [heating_setpoints |-> [t \in 1..MaxT |-> 60],
     cooling_setpoints |-> <<>>]

Completed(code, parsable, data) ==
    [returncode |-> code,
     stdout |-> [parsable |-> parsable, data |-> data],
     stderr |-> IF code = 0 THEN "" ELSE "generator stderr"]

SampleList(n) == [k \in 1..n |-> SampleSchedule(k)]

GeneratorSamples ==
    {Completed(0, TRUE, SampleList(MaxBuildings)),
     Completed(0, TRUE, SampleList(MaxBuildings - 1)),
     Completed(0, TRUE, Append(SampleList(MaxBuildings - 1), MalformedSample)),
     Completed(0, FALSE, <<>>),
     Completed(1, FALSE, <<>>),
     Completed(1, TRUE, SampleList(MaxBuildings)),
     Completed(1, TRUE, <<MalformedSample>>)}

BuildingId(i) == "b" \o ToString(i)

Building(id, ext, refs) ==
    [BuildingID |-> id, extension |-> ext, SchedulesFilePath |-> refs]

\* the references a document may already hold for its i-th building
ExistingReferences(i) ==
    SeqsUpTo({output_csv_path(BuildingId(i)), OtherReference}, MaxRefs)

Extensions == {NoneVal} \cup {Some(p) : p \in SeqsUpTo({"own", "other"}, MaxRefs)}

ReferenceOf(i, name) ==
    IF name = "own" THEN output_csv_path(BuildingId(i)) ELSE OtherReference

\* documents whose buildings are all identified, with any extension content
ReferenceDocuments ==
    UNION {{[i \in 1..n |->
                IF e[i] = NoneVal
                THEN Building(BuildingId(i), FALSE, <<>>)
                ELSE Building(BuildingId(i), TRUE,
                              [j \in 1..Len(e[i][1]) |-> ReferenceOf(i, e[i][1][j])])] :
            e \in [1..n -> Extensions]} : n \in 0..MaxBuildings}

\* documents without extensions, with any identification of their buildings
IdentifierDocuments ==
    UNION {{[i \in 1..n |->
                Building(IF d[i] = "id" THEN BuildingId(i) ELSE d[i], FALSE, <<>>)] :
            d \in [1..n -> {"id", NoElement, NoIdAttribute}]} : n \in 1..MaxBuildings}

SampleDocument == <<Building(BuildingId(1), FALSE, <<>>)>>

InitDocuments ==
    /\ hpxml_file \in ReferenceDocuments \cup IdentifierDocuments
    /\ user_arguments \in ArgumentSamples
    /\ generator \in GeneratorSamples

InitArguments ==
    /\ hpxml_file = SampleDocument
    /\ user_arguments \in AllArguments \cup {UnknownModeSample}
    /\ generator \in GeneratorSamples

InitSchedules ==
    /\ hpxml_file = SampleDocument
    /\ user_arguments \in ScheduleArguments
    /\ generator \in {Completed(0, TRUE, <<s>>) : s \in Schedules}

InitTimings ==
    /\ hpxml_file = SampleDocument
    /\ user_arguments \in TimingArguments
    /\ generator \in {Completed(0, TRUE, <<s>>) : s \in FullSchedules}

Init ==
    /\ InitDocuments \/ InitArguments \/ InitSchedules \/ InitTimings
    /\ csv_files = [p \in {} |-> <<>>]
    /\ pc = "start"
    /\ ret = "running"
    /\ exception = ""
    /\ warnings = <<>>
    /\ errors = <<>>
    /\ inputs = NoneVal
    /\ result = NoneVal
    /\ setpoints = NoneVal
    /\ new_setpoints = NoneVal
    /\ hpxml = <<>>
    /\ indx = 0
    /\ csv_written = {}
    /\ persists = 0
    /\ file_at_start = hpxml_file
    /\ runs_ok = 0

----------------------------------------------------------------------------
\* The steps of run()

Return(value) == pc' = "done" /\ ret' = value /\ exception' = ""
Raise(name) == pc' = "done" /\ ret' = "raised" /\ exception' = name

\* lines 117-124: validate, then process the arguments
ProcessArguments ==
    /\ pc = "start"
    /\ IF ~validateUserArguments(user_arguments)
       THEN /\ Return("false")
            /\ errors' = Append(errors, [kind |-> "invalid_argument",
                                         detail |-> {"offset_type"}])
            /\ UNCHANGED <<warnings, inputs>>
       ELSE LET r == process_arguments(user_arguments, passed_args(user_arguments))
            IN /\ warnings' = warnings \o r.warnings
               /\ errors' = errors \o r.errors
               /\ inputs' = Some(r.inputs)
               /\ pc' = "generator"
               /\ UNCHANGED <<ret, exception>>
    /\ UNCHANGED <<env, hpxml_file, csv_files, result, setpoints, new_setpoints,
                   hpxml, indx, csv_written, persists, file_at_start, runs_ok>>

\* lines 126-130: run the baseline generator and wait for it
RunGenerator ==
    /\ pc = "generator"
    /\ result' = Some(generator)
    /\ pc' = "parse"
    /\ UNCHANGED <<env, hpxml_file, csv_files, ret, exception, warnings, errors,
                   inputs, setpoints, new_setpoints, hpxml, indx, csv_written,
                   persists, file_at_start, runs_ok>>

\* lines 132-138: json.loads(result.stdout) into HVACSetpoints objects
ParseSetpoints ==
    /\ pc = "parse"
    /\ IF ~result[1].stdout.parsable
       THEN Raise("JSONDecodeError") /\ UNCHANGED setpoints
       ELSE /\ setpoints' = Some(result[1].stdout.data)
            /\ pc' = "returncode"
            /\ UNCHANGED <<ret, exception>>
    /\ UNCHANGED <<env, hpxml_file, csv_files, warnings, errors, inputs, result,
                   new_setpoints, hpxml, indx, csv_written, persists,
                   file_at_start, runs_ok>>

\* lines 139-141
CheckReturnCode ==
    /\ pc = "returncode"
    /\ IF result[1].returncode # 0
       THEN /\ errors' = Append(errors, [kind |-> "generator_failed",
                                         detail |-> {result[1].stderr}])
            /\ Return("false")
       ELSE /\ pc' = "modify"
            /\ UNCHANGED <<errors, ret, exception>>
    /\ UNCHANGED <<env, hpxml_file, csv_files, warnings, inputs, result, setpoints,
                   new_setpoints, hpxml, indx, csv_written, persists,
                   file_at_start, runs_ok>>

\* the first exception the calls of lines 143-145 end with, "" if none
FirstException(sps) ==
    LET failing == {k \in 1..Len(sps) : EngineException(sps[k]) # ""}
    IN IF failing = {} THEN ""
       ELSE EngineException(sps[CHOOSE k \in failing : \A j \in failing : k <= j])

\* A variant of lines 143-145 that carries on past an exception of the engine.
ModifySetpointsLenient ==
    /\ pc = "modify"
    /\ new_setpoints' = Some(ModifiedSetpoints(setpoints[1], inputs[1]))
    /\ pc' = "load"
    /\ UNCHANGED <<ret, exception>>
    /\ UNCHANGED <<env, hpxml_file, csv_files, warnings, errors, inputs, result,
                   setpoints, hpxml, indx, csv_written, persists, file_at_start,
                   runs_ok>>

\* lines 143-145: the offset engine on every schedule; an exception of
\* _get_modified_setpoints is not caught and ends the run
ModifySetpoints ==
    /\ pc = "modify"
    /\ IF FirstException(setpoints[1]) # ""
       THEN Raise(FirstException(setpoints[1])) /\ UNCHANGED new_setpoints
       ELSE /\ new_setpoints' = Some(ModifiedSetpoints(setpoints[1], inputs[1]))
            /\ pc' = "load"
            /\ UNCHANGED <<ret, exception>>
    /\ UNCHANGED <<env, hpxml_file, csv_files, warnings, errors, inputs, result,
                   setpoints, hpxml, indx, csv_written, persists, file_at_start,
                   runs_ok>>

\* lines 147-148
LoadDocument ==
    /\ pc = "load"
    /\ hpxml' = hpxml_file
    /\ indx' = 0
    /\ pc' = "buildings"
    /\ UNCHANGED <<env, hpxml_file, csv_files, ret, exception, warnings, errors,
                   inputs, result, setpoints, new_setpoints, csv_written,
                   persists, file_at_start, runs_ok>>

\* lines 149-164: one iteration of the loop over the buildings
ProcessBuilding ==
    /\ pc = "buildings"
    /\ indx < Len(hpxml)
    /\ LET building == hpxml[indx + 1]
           path == output_csv_path(BuildingIdText(building))
       IN IF building.BuildingID = NoElement
          THEN /\ Raise("AttributeError")
               /\ UNCHANGED <<csv_files, csv_written, hpxml, indx>>
          ELSE IF indx + 1 > Len(new_setpoints[1])
          THEN /\ Raise("IndexError")
               /\ UNCHANGED <<csv_files, csv_written, hpxml, indx>>
          ELSE /\ csv_files' = WriteFile(csv_files, path,
                                    get_setpoint_csv(new_setpoints[1][indx + 1]))
               /\ csv_written' = csv_written \cup {path}
               /\ hpxml' = [hpxml EXCEPT ![indx + 1] = MergeBuilding(@, path)]
               /\ indx' = indx + 1
               /\ UNCHANGED <<pc, ret, exception>>
    /\ UNCHANGED <<env, hpxml_file, warnings, errors, inputs, result, setpoints,
                   new_setpoints, persists, file_at_start, runs_ok>>

\* lines 166-167: write the tree back and return True
Persist ==
    /\ pc = "buildings"
    /\ indx = Len(hpxml)
    /\ hpxml_file' = hpxml
    /\ persists' = persists + 1
    /\ runs_ok' = Min(runs_ok + 1, 2)
    /\ Return("true")
    /\ UNCHANGED <<env, csv_files, warnings, errors, inputs, result, setpoints,
                   new_setpoints, hpxml, indx, csv_written, file_at_start>>

\* the host runs the measure again, on the files the last run left
Rerun ==
    /\ pc = "done"
    /\ pc' = "start"
    /\ ret' = "running"
    /\ exception' = ""
    /\ warnings' = <<>>
    /\ errors' = <<>>
    /\ inputs' = NoneVal
    /\ result' = NoneVal
    /\ setpoints' = NoneVal
    /\ new_setpoints' = NoneVal
    /\ hpxml' = <<>>
    /\ indx' = 0
    /\ csv_written' = {}
    /\ persists' = 0
    /\ file_at_start' = hpxml_file
    /\ UNCHANGED <<env, hpxml_file, csv_files, runs_ok>>

Next ==
    \/ ProcessArguments
    \/ RunGenerator
    \/ ParseSetpoints
    \/ CheckReturnCode
    \/ ModifySetpoints
    \/ LoadDocument
    \/ ProcessBuilding
    \/ Persist
    \/ Rerun

Spec == Init /\ [][Next]_vars

TypeOK ==
    /\ pc \in {"start", "generator", "parse", "returncode", "modify", "load",
               "buildings", "done"}
    /\ ret \in {"running", "true", "false", "raised"}
    /\ indx \in 0..MaxBuildings
    /\ runs_ok \in 0..2

----------------------------------------------------------------------------
\* Properties

Max(a, b) == IF a >= b THEN a ELSE b

\* the path run() generates for a building
OwnPath(building) == output_csv_path(BuildingIdText(building))

\* number of references to its own schedule file a building holds
OwnCount(building) == Count(OwnPath(building), building.SchedulesFilePath)

\* absolute-only fields passed under relative mode, and the converse
StrayAbsolute ==
    /\ user_arguments.offset_type = Some("relative")
    /\ passed_args(user_arguments) \cap AbsoluteOffsetFields # {}
StrayRelative ==
    /\ user_arguments.offset_type = Some("absolute")
    /\ passed_args(user_arguments) \cap RelativeOffsetFields # {}

Failed == ret \in {"false", "raised"} \/ errors # <<>>

\* C1 (as stated): after two successful runs on the same document every
\* building holds exactly one reference to its own schedule file, and the
\* second run left the document as the first run wrote it.
C1_ExactlyOneAfterTwoRuns ==
    runs_ok = 2 =>
        /\ \A k \in 1..Len(hpxml_file) : OwnCount(hpxml_file[k]) = 1
        /\ hpxml_file = file_at_start

\* C1 (amended): once a run has succeeded every building holds at least one
\* reference to its own schedule file: exactly one if the document held at
\* most one before, and as many as before otherwise; a second successful run
\* leaves the document as the first run wrote it.
C1_MergeIdempotent ==
    runs_ok >= 1 =>
        /\ Len(hpxml_file) = Len(file_at_start)
        /\ \A k \in 1..Len(hpxml_file) :
              OwnCount(hpxml_file[k]) = Max(1, OwnCount(file_at_start[k]))
        /\ runs_ok = 2 => hpxml_file = file_at_start

C1_Witness ==
    /\ runs_ok = 2 /\ pc = "done" /\ ret = "true"
    /\ Len(hpxml_file) = MaxBuildings
    /\ \A k \in 1..Len(hpxml_file) : OwnCount(hpxml_file[k]) = 1

\* C2: with absolute-only fields passed under relative mode the run stops at
\* argument processing and fails: the generator is never invoked, no CSV is
\* written, the document is not persisted and the run does not return True.
C2_StrayAbsoluteIsFatal ==
    StrayAbsolute =>
        /\ result = NoneVal
        /\ csv_written = {}
        /\ persists = 0
        /\ pc = "done" => ret = "false"

\* C3: when the generator exits non-zero, its output is never parsed into
\* setpoint objects nor transformed, no CSV is written, nothing is
\* persisted, and the run ends returning False with an error that carries
\* the captured stderr.
C3_ExitCodeCheckedFirst ==
    (result # NoneVal /\ result[1].returncode # 0) =>
        /\ setpoints = NoneVal
        /\ new_setpoints = NoneVal
        /\ csv_written = {}
        /\ persists = 0
        /\ pc = "done" =>
              /\ ret = "false"
              /\ \E i \in 1..Len(errors) :
                    /\ errors[i].kind = "generator_failed"
                    /\ errors[i].detail = {result[1].stderr}

\* C4: a run writes the document at most once, and only after the last
\* building; a run that failed (returned False, raised, or registered an
\* error) leaves the document on disk as it was when the run started.
C4_FailedRunLeavesDocument ==
    /\ persists <= 1
    /\ persists = 1 => indx = Len(hpxml)
    /\ Failed => hpxml_file = file_at_start

\* a schedule the generator handed over has arrays of different lengths
MalformedBaseline ==
    setpoints # NoneVal /\ \E k \in 1..Len(setpoints[1]) : Malformed(setpoints[1][k])

\* no output of the run exists: no modified schedule, no CSV, no reference
\* attached in a loaded tree, nothing persisted, no success reported
NoOutput ==
    /\ new_setpoints = NoneVal
    /\ csv_written = {}
    /\ hpxml = <<>>
    /\ hpxml_file = file_at_start
    /\ ret # "true"

Covered(w, T) ==
    {day * StepsPerDay + ((w.start + j) % StepsPerDay) :
        day \in {x \in 0..(T \div StepsPerDay) : x % DaysPerWeek \in w.days},
        j \in 0..(w.duration - 1)}

C6_WitnessOverlap ==
    /\ new_setpoints # NoneVal
    /\ inputs[1].offset_type = "relative"
    /\ inputs[1].relative_offset.heating = Some(2)
    /\ inputs[1].relative_offset.cooling = NoneVal
    /\ inputs[1].offset_timing =
          <<[start |-> StepsPerDay - 1, duration |-> 2, days |-> AllDays],
            [start |-> 0, duration |-> 1, days |-> AllDays]>>
    /\ Len(setpoints[1]) = 1
    /\ setpoints[1][1].heating_setpoints = <<60, 60, 60, 60, 60>>
    /\ new_setpoints[1][1].heating_setpoints = <<62, 60, 60, 62, 62>>

\* the arguments without the relative-only fields
WithoutRelative(args) ==
    [args EXCEPT !.heating_delta = NoneVal, !.cooling_delta = NoneVal]

\* C7: with relative-only fields passed under absolute mode, argument
\* processing registers one warning and no error, the run goes on to the
\* generator, and the modified setpoints are those the run computes without
\* the stray fields.
C7_StrayRelativeIsWarning ==
    (StrayRelative /\ pc # "start") =>
        /\ warnings = <<[kind |-> "ignored_relative",
                         detail |-> passed_args(user_arguments) \cap RelativeOffsetFields]>>
        /\ \A i \in 1..Len(errors) : errors[i].kind = "generator_failed"
        /\ pc = "generator" => ret = "running"
        /\ pc = "done" => result # NoneVal
        /\ new_setpoints # NoneVal =>
              new_setpoints[1] =
                  ModifiedSetpoints(setpoints[1],
                                    get_input_from_dict(WithoutRelative(user_arguments)))

C7_Witness ==
    /\ StrayRelative
    /\ pc = "done" /\ ret = "true"
    /\ warnings # <<>> /\ errors = <<>>
    /\ csv_written # {}

\* C8: a building without its identifier aborts the run: the loop never
\* completes that building nor any after it, no reference is attached to
\* it, the document is not persisted and the run does not return True.
C8_MissingIdentifierAborts ==
    \A k \in 1..Len(hpxml) :
        hpxml[k].BuildingID \in {NoElement, NoIdAttribute} =>
            /\ indx < k
            /\ hpxml[k].SchedulesFilePath = file_at_start[k].SchedulesFilePath
            /\ persists = 0
            /\ ret # "true"

\* the data rows of a CSV file: its lines after the header, blank ones aside
DataRows(lines) == SelectSeq(Tail(lines), LAMBDA l : l # "")

\* C9: the CSV written for a schedule of T steps is the header line
\* heating_setpoint,cooling_setpoint followed by exactly T data rows, row i
\* being heating[i],cooling[i].
C9_CsvLayout ==
    (pc \in {"buildings", "done"} /\ indx >= 1) =>
        LET schedule == new_setpoints[1][indx]
            lines == csv_files[OwnPath(hpxml[indx])]
            T == Len(schedule.heating_setpoints)
        IN Len(schedule.cooling_setpoints) = T =>
              /\ lines[1] = Header
              /\ Len(DataRows(lines)) = T
              /\ \A i \in 1..T :
                    DataRows(lines)[i] =
                        ToString(schedule.heating_setpoints[i]) \o ","
                            \o ToString(schedule.cooling_setpoints[i])

C9_Witness ==
    /\ pc = "done" /\ ret = "true" /\ indx = 1
    /\ new_setpoints[1][1].heating_setpoints = <<61, 60, 61>>
    /\ csv_files[OwnPath(hpxml[1])] = <<Header, "61,75", "60,75", "61,75">>

\* C10: the merge only appends: the references a building held when the run
\* started are still there, with the same text and in the same order, at
\* the front of its references in the tree and on disk, and a run adds at
\* most one reference per building.
C10_MergeOnlyAppends ==
    /\ \A k \in 1..Len(hpxml) :
          /\ IsPrefix(file_at_start[k].SchedulesFilePath, hpxml[k].SchedulesFilePath)
          /\ Len(hpxml[k].SchedulesFilePath)
                <= Len(file_at_start[k].SchedulesFilePath) + 1
    /\ \A k \in 1..Len(hpxml_file) :
          /\ IsPrefix(file_at_start[k].SchedulesFilePath, hpxml_file[k].SchedulesFilePath)
          /\ Len(hpxml_file[k].SchedulesFilePath)
                <= Len(file_at_start[k].SchedulesFilePath) + 1

C10_Witness ==
    /\ pc = "done" /\ ret = "true"
    /\ \E k \in 1..Len(hpxml_file) :
          /\ file_at_start[k].SchedulesFilePath = <<OtherReference>>
          /\ hpxml_file[k].SchedulesFilePath = <<OtherReference, OwnPath(hpxml_file[k])>>

====
